---- MODULE Spec2Model ----
(***************************************************************************)
(* A model of the linear_type crate (src/src/lib.rs): cells generated by   *)
(* the linear! macro, the NoDrop guard carried in their Linearity field,   *)
(* and the combinators that consume one cell and wrap the result in the    *)
(* next one.                                                               *)
(*                                                                         *)
(* A cell is a record: the ManuallyDrop payload slot, the Linearity guard  *)
(* and the phantom type tag U. Payloads are flat values: a plain value, a  *)
(* Result (Ok / Err) or an Option (Some / None) of a small number.         *)
(* Caller-supplied closures are drawn from small named families, one of    *)
(* which panics. The build configuration (cfg(test), debug_assertions,     *)
(* feature drop_unchecked) is fixed in the initial state.                  *)
(***************************************************************************)
EXTENDS Naturals, Sequences, FiniteSets

VARIABLES cfg, cells, held, failures, status, last

vars == <<cfg, cells, held, failures, status, last>>

\* Most cells ever constructed in one run (by a constructor or a combinator).
MaxCells == 2
\* Payload numbers are 0 .. MaxVal - 1.
MaxVal == 2
\* Distinct macro expansion sites of new_linear!() / unique!().
MaxSites == 2
\* The chains (cells made by a constructor, with their successors) of one run: the
\* chain an operation works on and one more that is alive beside it.
Chains == {1, 2}

Vals == 0 .. (MaxVal - 1)

----------------------------------------------------------------------------
(* Payloads *)

Plain(x) == [kind |-> "Plain", val |-> x]
Ok(x) == [kind |-> "Ok", val |-> x]
Err(x) == [kind |-> "Err", val |-> x]
Some(x) == [kind |-> "Some", val |-> x]
None == [kind |-> "None", val |-> 0]

Payloads ==
    {Plain(x) : x \in Vals} \cup {Ok(x) : x \in Vals} \cup {Err(x) : x \in Vals}
        \cup {Some(x) : x \in Vals} \cup {None}

\* The payload type T of a cell, as core::any::type_name would spell it.
TypeName(p) ==
    CASE p.kind \in {"Ok", "Err"} -> "Result"
      [] p.kind \in {"Some", "None"} -> "Option"
      [] OTHER -> "String"

----------------------------------------------------------------------------
(* Build configuration *)

Configs == [test : BOOLEAN, debug_assertions : BOOLEAN, drop_unchecked : BOOLEAN]

\* #[cfg(any(debug_assertions, not(feature = "drop_unchecked")))] impl Drop for NoDrop
DropImplemented == cfg.debug_assertions \/ ~cfg.drop_unchecked

\* std::thread::panicking()
panicking(S) == S.status = "unwinding"

\* The text of panic!("linear type dropped") / eprintln!("linear type dropped").
GuardMessage == <<"linear", "type", "dropped">>

----------------------------------------------------------------------------
(* The state the operations act on, as one record *)

\* calls counts the invocations of the caller's closure within one operation.
Cur ==
    [cells |-> cells, held |-> held, failures |-> failures, status |-> status,
     calls |-> 0]

Install(S) ==
    /\ cells' = S.cells
    /\ held' = S.held
    /\ failures' = S.failures
    /\ status' = S.status

Ids == 1 .. Len(cells)

\* A live cell: the cell value still exists, payload in its slot, Linearity armed.
Live(S, c) ==
    /\ c \in 1 .. Len(S.cells)
    /\ S.cells[c].obj # {}

\* The cell value of a live cell: ($name)(ManuallyDrop<$inner>, Linearity<$u>).
Obj(S, c) == CHOOSE o \in S.cells[c].obj : TRUE

\* A panic starts unwinding the thread.
Panic(S, f) ==
    [S EXCEPT !.failures = Append(@, f), !.status = "unwinding"]

\* std::process::abort()
Abort(S, f) ==
    [S EXCEPT !.failures = Append(@, f), !.status = "aborted"]

Failure(kind, how, msg, c) == [kind |-> kind, how |-> how, msg |-> msg, cell |-> c]

----------------------------------------------------------------------------
(* Guard *)

\* Mutant of NoDrop_drop: the cfg(test) and cfg(not(test)) bodies swapped.
NoDrop_drop_cfg_swapped(S, c) ==
    IF ~DropImplemented THEN S
    ELSE IF ~cfg.test
         THEN IF ~panicking(S)
              THEN Panic(S, Failure("guard", "panic", GuardMessage, c))
              ELSE S
         ELSE Abort(S, Failure("guard", "abort",
                               IF cfg.debug_assertions THEN GuardMessage ELSE <<>>, c))

\* Mutant of NoDrop_drop: the test body panics without asking std::thread::panicking().
NoDrop_drop_unconditional_panic(S, c) ==
    IF ~DropImplemented THEN S
    ELSE IF cfg.test
         THEN Panic(S, Failure("guard", "panic", GuardMessage, c))
         ELSE Abort(S, Failure("guard", "abort",
                               IF cfg.debug_assertions THEN GuardMessage ELSE <<>>, c))

\* Mutant of NoDrop_drop: the impl is gated on not(feature = "drop_unchecked") alone.
NoDrop_drop_unchecked_wins(S, c) ==
    IF cfg.drop_unchecked THEN S
    ELSE IF cfg.test
         THEN IF ~panicking(S)
              THEN Panic(S, Failure("guard", "panic", GuardMessage, c))
              ELSE S
         ELSE Abort(S, Failure("guard", "abort",
                               IF cfg.debug_assertions THEN GuardMessage ELSE <<>>, c))

\* impl Drop for NoDrop, run for the Linearity field of cell c.
NoDrop_drop(S, c) ==
    IF ~DropImplemented THEN S
    ELSE IF cfg.test
         THEN IF ~panicking(S)
              THEN Panic(S, Failure("guard", "panic", GuardMessage, c))
              ELSE S
         ELSE Abort(S, Failure("guard", "abort",
                               IF cfg.debug_assertions THEN GuardMessage ELSE <<>>, c))

\* Mutant of drop_glue: the payload field is a plain T and is dropped with the cell,
\* fields in declaration order.
drop_glue_drops_payload(S, c) ==
    NoDrop_drop([S EXCEPT !.cells[c].ended = TRUE, !.cells[c].obj = {},
                          !.cells[c].cleaned = @ + 1], c)

\* Drop glue of a cell that reaches end of life: the ManuallyDrop slot goes away
\* without running the payload's cleanup, the Linearity field drops its NoDrop.
drop_glue(S, c) ==
    NoDrop_drop([S EXCEPT !.cells[c].ended = TRUE, !.cells[c].obj = {}], c)

----------------------------------------------------------------------------
(* Construction *)

\* A cell: the cell value (payload slot, type of the payload, type tag U), and what
\* has happened to it: Linearity forgotten, end of life reached with the Linearity
\* still in it, payload extractions, runs of the payload's cleanup.
NewCell(variant, p, tag, chain) ==
    [obj |-> {[variant |-> variant, ptype |-> TypeName(p), tag |-> tag, payload |-> p]},
     chain |-> chain, disarmed |-> FALSE, ended |-> FALSE,
     extracted |-> 0, cleaned |-> 0]

\* $crate::__linearity::<U>() inside a struct literal: one more cell, armed.
Construct(S, variant, p, tag, chain) ==
    [S EXCEPT !.cells = Append(@, NewCell(variant, p, tag, chain))]

NextChain(S) == Cardinality({S.cells[i].chain : i \in 1 .. Len(S.cells)}) + 1

\* Mutant of new: every unique!() yields one and the same closure type.
new_one_closure_type(S, p, s) ==
    Construct(S, "Linear", p, <<"UniqueType", "closure@site", 0>>, NextChain(S))

\* Linear::new(inner, unique!()) as expanded by new_linear!() at macro site s: the
\* closure type of unique!() is the type of that one expansion.
new(S, p, s) ==
    Construct(S, "Linear", p, <<"UniqueType", "closure@site", s>>, NextChain(S))

\* must_use(val): MustUse::new(val, unique!()). MustUse<T> is Linear<T, UniqueType<fn()>>,
\* so the closure of unique!() is taken as a fn() and the tag is the fixed one.
must_use(S, p) ==
    Construct(S, "Linear", p, <<"UniqueType", "fn()", 0>>, NextChain(S))

\* LinearString::new(inner): the fully concrete variant, U fixed to UniqueType<fn()>.
new_concrete(S, p) ==
    Construct(S, "LinearString", p, <<"UniqueType", "fn()", 0>>, NextChain(S))

----------------------------------------------------------------------------
(* Terminal operations *)

\* Mutant of into: the payload is read out of the slot and the cell stays usable.
into_copies_payload(S, c) ==
    [S EXCEPT !.cells[c].disarmed = TRUE,
              !.cells[c].extracted = @ + 1]

\* Mutant of into: the Linearity is dropped instead of forgotten.
into_drops_linearity(S, c) ==
    NoDrop_drop([S EXCEPT !.cells[c].obj = {},
                          !.cells[c].extracted = @ + 1], c)

\* into(self): forget the Linearity, move the payload out of the slot.
into(S, c) ==
    [S EXCEPT !.cells[c].disarmed = TRUE,
              !.cells[c].obj = {},
              !.cells[c].extracted = @ + 1]

\* The value into() returns: what ManuallyDrop::into_inner finds in the slot.
into_value(S, c) == Obj(S, c).payload

\* The caller keeps the bare payload it got from into() on cell c.
Hold(S, c) == [S EXCEPT !.held = @ \cup {c}]

\* A bare payload the caller holds is dropped: its own cleanup runs, and may panic.
\* A panic while the thread is already unwinding aborts the process.
drop_value(S, c, dp) ==
    LET S1 == [S EXCEPT !.held = @ \ {c}, !.cells[c].cleaned = @ + 1]
    IN  IF ~dp THEN S1
        ELSE IF panicking(S1)
             THEN Abort(S1, Failure("double_panic", "abort", <<>>, c))
             ELSE Panic(S1, Failure("payload", "panic", <<>>, c))

\* destroy(mut self): ManuallyDrop::drop on the slot, then forget the Linearity.
\* When the payload's cleanup panics the cell is still whole and is unwound.
destroy(S, c, dp) ==
    LET S1 == [S EXCEPT !.cells[c].extracted = @ + 1,
                        !.cells[c].cleaned = @ + 1]
    IN  IF dp
        THEN drop_glue(Panic(S1, Failure("payload", "panic", <<>>, c)), c)
        ELSE [S1 EXCEPT !.cells[c].disarmed = TRUE, !.cells[c].obj = {}]

----------------------------------------------------------------------------
(* Caller-supplied closures *)

\* FnOnce($inner) -> R handed to map: it gets the whole payload.
MapFns == {"succ", "try", "find", "panic"}
\* FnOnce(T) -> Result<R, E> handed to map_ok, FnOnce(E) -> Result<T, R> to map_err.
ResultFns == {"ok_succ", "fail", "panic"}
\* FnOnce(T) -> Option<R> handed to map_some.
OptionFns == {"some_succ", "none", "panic"}
\* FnOnce() -> Option<T> handed to or_else.
OrElseFns == {"some_default", "none", "panic"}

succ(x) == (x + 1) % MaxVal

ApplyMap(f, p) ==
    CASE f = "succ" -> Plain(succ(p.val))
      [] f = "try" -> IF p.val = 0 THEN Ok(p.val) ELSE Err(p.val)
      [] f = "find" -> IF p.val = 0 THEN None ELSE Some(p.val)

Apply(f, x) ==
    CASE f = "ok_succ" -> Ok(succ(x))
      [] f = "fail" -> Err(x)
      [] f = "some_succ" -> Some(succ(x))
      [] f = "some_default" -> Some(0)
      [] f = "none" -> None

\* The closure is entered: one more invocation.
Called(S) == [S EXCEPT !.calls = @ + 1]

UserPanic(S, c) == Panic(S, Failure("user", "panic", <<>>, c))

----------------------------------------------------------------------------
(* Combinators *)

\* The type of cell c, which tags the cell a combinator makes from it.
SelfType(S, c) == <<Obj(S, c).variant, Obj(S, c).ptype>> \o Obj(S, c).tag

\* Cells c and d have one and the same type: a binding of the one accepts the other
\* (bar = foo compiles).
Interchangeable(S, c, d) == SelfType(S, c) = SelfType(S, d)

\* Self::transpose(r): a new Linear<R, Self>, armed, in the chain of cell c; self is
\* the type Self.
transpose(S, self, c, r) == Construct(S, "Linear", r, self, S.cells[c].chain)

\* $crate::__linear_from_parts::<R, Self>(value), used by the concrete variant's map.
linear_from_parts(S, self, c, r) == Construct(S, "Linear", r, self, S.cells[c].chain)

\* __linear_from_parts::<T, U>(value) is a pub fn: a caller may call it on its own,
\* with any type u for U. The cell it makes comes from no other cell.
linear_from_parts_call(S, u, p) == Construct(S, "Linear", p, u, NextChain(S))

\* Mutant of map: the payload is wrapped again without applying f to it.
map_without_f(S, c, f) ==
    LET v == into_value(S, c)
        S1 == Called(into(S, c))
    IN  IF f = "panic" THEN UserPanic(S1, c)
        ELSE transpose(S1, SelfType(S, c), c, v)

\* map(self, f): Self::transpose(f(self.into()))
map(S, c, f) ==
    LET v == into_value(S, c)
        S1 == Called(into(S, c))
    IN  IF f = "panic" THEN UserPanic(S1, c)
        ELSE IF Obj(S, c).variant = "Linear"
             THEN transpose(S1, SelfType(S, c), c, ApplyMap(f, v))
             ELSE linear_from_parts(S1, SelfType(S, c), c, ApplyMap(f, v))

\* Mutant of map_ok: f runs on a borrowed payload while self is still whole and only
\* then is self destructured; a panic of f unwinds through the armed cell.
map_ok_f_before_into(S, c, f) ==
    LET v == into_value(S, c)
        S1 == into(S, c)
    IN  IF v.kind = "Ok"
        THEN IF f = "panic" THEN drop_glue(UserPanic(Called(S), c), c)
             ELSE transpose(Called(S1), SelfType(S, c), c, Apply(f, v.val))
        ELSE transpose(S1, SelfType(S, c), c, Err(v.val))

\* map_ok(self, f): match self.into() { Ok(t) => transpose(f(t)), Err(e) => transpose(Err(e)) }
map_ok(S, c, f) ==
    LET v == into_value(S, c)
        S1 == into(S, c)
    IN  IF v.kind = "Ok"
        THEN IF f = "panic" THEN UserPanic(Called(S1), c)
             ELSE transpose(Called(S1), SelfType(S, c), c, Apply(f, v.val))
        ELSE transpose(S1, SelfType(S, c), c, Err(v.val))

\* Mutant of map_err: f is invoked before the match, whatever the branch.
map_err_eager(S, c, f) ==
    LET v == into_value(S, c)
        S1 == Called(into(S, c))
    IN  IF f = "panic" THEN UserPanic(S1, c)
        ELSE IF v.kind = "Ok"
             THEN transpose(S1, SelfType(S, c), c, Ok(v.val))
             ELSE transpose(S1, SelfType(S, c), c, Apply(f, v.val))

\* map_err(self, f): match self.into() { Ok(t) => transpose(Ok(t)), Err(e) => transpose(f(e)) }
map_err(S, c, f) ==
    LET v == into_value(S, c)
        S1 == into(S, c)
    IN  IF v.kind = "Ok"
        THEN transpose(S1, SelfType(S, c), c, Ok(v.val))
        ELSE IF f = "panic" THEN UserPanic(Called(S1), c)
             ELSE transpose(Called(S1), SelfType(S, c), c, Apply(f, v.val))

\* Result::unwrap / Result::unwrap_err / Option::unwrap on the wrong branch.
UnwrapPanic(S, c) == Panic(S, Failure("unwrap", "panic", <<>>, c))

\* Mutant of unwrap_ok: the branch is asserted before into() has forgotten the
\* Linearity, so a mismatch unwinds through the still armed cell.
unwrap_ok_before_into(S, c) ==
    LET v == into_value(S, c)
    IN  IF v.kind = "Ok"
        THEN transpose(into(S, c), SelfType(S, c), c, Plain(v.val))
        ELSE drop_glue(UnwrapPanic(S, c), c)

\* unwrap_ok(self): transpose(self.into().unwrap())
unwrap_ok(S, c) ==
    LET v == into_value(S, c)
        S1 == into(S, c)
    IN  IF v.kind = "Ok" THEN transpose(S1, SelfType(S, c), c, Plain(v.val)) ELSE UnwrapPanic(S1, c)

\* unwrap_err(self): transpose(self.into().unwrap_err())
unwrap_err(S, c) ==
    LET v == into_value(S, c)
        S1 == into(S, c)
    IN  IF v.kind = "Err" THEN transpose(S1, SelfType(S, c), c, Plain(v.val)) ELSE UnwrapPanic(S1, c)

\* Mutant of map_some: f is applied whatever the payload, to a default when it is None.
map_some_eager(S, c, f) ==
    LET v == into_value(S, c)
        S1 == into(S, c)
    IN  IF f = "panic" THEN UserPanic(Called(S1), c)
        ELSE transpose(Called(S1), SelfType(S, c), c,
                       Apply(f, IF v.kind = "Some" THEN v.val ELSE 0))

\* map_some(self, f): match self.into() { Some(t) => transpose(f(t)), None => transpose(None) }
map_some(S, c, f) ==
    LET v == into_value(S, c)
        S1 == into(S, c)
    IN  IF v.kind = "Some"
        THEN IF f = "panic" THEN UserPanic(Called(S1), c)
             ELSE transpose(Called(S1), SelfType(S, c), c, Apply(f, v.val))
        ELSE transpose(S1, SelfType(S, c), c, None)

\* Mutant of or_else: the Some branch wraps a copy of the payload and leaves self alone.
or_else_keeps_self(S, c, f) ==
    LET v == into_value(S, c)
        S1 == into(S, c)
    IN  IF v.kind = "Some"
        THEN transpose(S, SelfType(S, c), c, v)
        ELSE IF f = "panic" THEN UserPanic(Called(S1), c)
             ELSE transpose(Called(S1), SelfType(S, c), c, Apply(f, 0))

\* or_else(self, f): match self.into() { inner @ Some(_) => transpose(inner), None => transpose(f()) }
or_else(S, c, f) ==
    LET v == into_value(S, c)
        S1 == into(S, c)
    IN  IF v.kind = "Some"
        THEN transpose(S1, SelfType(S, c), c, v)
        ELSE IF f = "panic" THEN UserPanic(Called(S1), c)
             ELSE transpose(Called(S1), SelfType(S, c), c, Apply(f, 0))

\* unwrap_some(self): transpose(self.into().unwrap())
unwrap_some(S, c) ==
    LET v == into_value(S, c)
        S1 == into(S, c)
    IN  IF v.kind = "Some" THEN transpose(S1, SelfType(S, c), c, Plain(v.val)) ELSE UnwrapPanic(S1, c)

----------------------------------------------------------------------------
(* What the last operation was, for stating what an operation did *)

\* The operation that made the last step: its name, the cell it consumed, the
\* caller's closure, the value a constructor was given or into() returned, how often
\* the closure was invoked, and the expansion site of new_linear!() (0 for the rest).
Last(op, c, f, arg, S) ==
    [op |-> op, cell |-> c, f |-> f, arg |-> arg, called |-> S.calls, site |-> 0]

\* One step of the program: S is the state the operation leaves.
Step(op, c, f, arg, S) ==
    /\ Install(S)
    /\ last' = Last(op, c, f, arg, S)
    /\ UNCHANGED cfg

Init ==
    /\ cfg \in Configs
    /\ cells = <<>>
    /\ held = {}
    /\ failures = <<>>
    /\ status = "running"
    /\ last = [op |-> "init", cell |-> 0, f |-> "-", arg |-> {}, called |-> 0,
               site |-> 0]

Running == status = "running"
\* Operations that make a cell run only while the run has room for one more.
HasRoom == Len(cells) < MaxCells
HasChain == NextChain(Cur) \in Chains

New ==
    /\ Running /\ HasRoom /\ HasChain
    /\ \E p \in Payloads, s \in 1 .. MaxSites :
          /\ Install(new(Cur, p, s))
          /\ last' = [Last("new", 0, "-", {p}, Cur) EXCEPT !.site = s]
          /\ UNCHANGED cfg

MustUse ==
    /\ Running /\ HasRoom /\ HasChain
    /\ \E p \in Payloads :
          Step("must_use", 0, "-", {p}, must_use(Cur, p))

NewConcrete ==
    /\ Running /\ HasRoom /\ HasChain
    /\ \E x \in Vals :
          Step("new_concrete", 0, "-", {Plain(x)}, new_concrete(Cur, Plain(x)))

\* A caller's own call of __linear_from_parts, with the type of a live cell for U.
LinearFromParts ==
    /\ Running /\ HasRoom /\ HasChain
    /\ \E c \in Ids, x \in Vals :
          /\ Live(Cur, c)
          /\ Step("linear_from_parts", c, "-", {Plain(x)},
                  linear_from_parts_call(Cur, SelfType(Cur, c), Plain(x)))

Into ==
    /\ Running
    /\ \E c \in Ids :
          /\ Live(Cur, c)
          /\ Step("into", c, "-", {into_value(Cur, c)}, Hold(into(Cur, c), c))

Destroy ==
    /\ Running
    /\ \E c \in Ids, dp \in BOOLEAN :
          /\ Live(Cur, c)
          /\ Step("destroy", c, IF dp THEN "drop_panics" ELSE "-", {},
                  destroy(Cur, c, dp))

\* A live cell goes out of scope, in normal execution or while the thread unwinds.
DropCell ==
    /\ status \in {"running", "unwinding"}
    /\ \E c \in Ids :
          /\ Live(Cur, c)
          /\ Step(IF Running THEN "drop" ELSE "unwind_drop", c, "-", {},
                  drop_glue(Cur, c))

\* A bare payload goes out of scope, in normal execution or while the thread unwinds.
DropValue ==
    /\ status \in {"running", "unwinding"}
    /\ \E c \in held, dp \in BOOLEAN :
          Step(IF Running THEN "drop_value" ELSE "unwind_drop_value", c,
               IF dp THEN "drop_panics" ELSE "-", {}, drop_value(Cur, c, dp))

\* The impl blocks for Result and Option payloads exist for the generic cell only.
OnResult(c) == Obj(Cur, c).variant = "Linear" /\ Obj(Cur, c).ptype = "Result"
OnOption(c) == Obj(Cur, c).variant = "Linear" /\ Obj(Cur, c).ptype = "Option"

Map ==
    /\ Running /\ HasRoom
    /\ \E c \in Ids, f \in MapFns :
          /\ Live(Cur, c)
          /\ Step("map", c, f, {}, map(Cur, c, f))

MapOk ==
    /\ Running /\ HasRoom
    /\ \E c \in Ids, f \in ResultFns :
          /\ Live(Cur, c) /\ OnResult(c)
          /\ Step("map_ok", c, f, {}, map_ok(Cur, c, f))

MapErr ==
    /\ Running /\ HasRoom
    /\ \E c \in Ids, f \in ResultFns :
          /\ Live(Cur, c) /\ OnResult(c)
          /\ Step("map_err", c, f, {}, map_err(Cur, c, f))

UnwrapOk ==
    /\ Running
    /\ \E c \in Ids :
          /\ Live(Cur, c) /\ OnResult(c)
          /\ HasRoom \/ Obj(Cur, c).payload.kind # "Ok"
          /\ Step("unwrap_ok", c, "-", {}, unwrap_ok(Cur, c))

UnwrapErr ==
    /\ Running
    /\ \E c \in Ids :
          /\ Live(Cur, c) /\ OnResult(c)
          /\ HasRoom \/ Obj(Cur, c).payload.kind # "Err"
          /\ Step("unwrap_err", c, "-", {}, unwrap_err(Cur, c))

MapSome ==
    /\ Running /\ HasRoom
    /\ \E c \in Ids, f \in OptionFns :
          /\ Live(Cur, c) /\ OnOption(c)
          /\ Step("map_some", c, f, {}, map_some(Cur, c, f))

OrElse ==
    /\ Running /\ HasRoom
    /\ \E c \in Ids, f \in OrElseFns :
          /\ Live(Cur, c) /\ OnOption(c)
          /\ Step("or_else", c, f, {}, or_else(Cur, c, f))

UnwrapSome ==
    /\ Running
    /\ \E c \in Ids :
          /\ Live(Cur, c) /\ OnOption(c)
          /\ HasRoom \/ Obj(Cur, c).payload.kind # "Some"
          /\ Step("unwrap_some", c, "-", {}, unwrap_some(Cur, c))

Next ==
    \/ New
    \/ MustUse
    \/ NewConcrete
    \/ LinearFromParts
    \/ Into
    \/ Destroy
    \/ Map
    \/ MapOk
    \/ MapErr
    \/ UnwrapOk
    \/ UnwrapErr
    \/ MapSome
    \/ OrElse
    \/ UnwrapSome
    \/ DropCell
    \/ DropValue

Spec == Init /\ [][Next]_vars

----------------------------------------------------------------------------
(* Vocabulary of the properties *)

\* The state a step leaves.
Nxt ==
    [cells |-> cells', held |-> held', failures |-> failures', status |-> status',
     calls |-> 0]

Words(m) == {m[i] : i \in 1 .. Len(m)}

\* The Guard failures signalled for cell c among the failures F.
GuardFailures(F, c) == {i \in 1 .. Len(F) : F[i].kind = "guard" /\ F[i].cell = c}

\* The step raised exactly one failure; NewFailure is that failure.
RaisedOne == Len(failures') = Len(failures) + 1
NewFailure == failures'[Len(failures')]

\* The step made exactly one cell; NewId is that cell.
MadeOne == Len(cells') = Len(cells) + 1
NewId == Len(cells')

Constructors == {"new", "must_use", "new_concrete"}
Combinators ==
    {"map", "map_ok", "map_err", "unwrap_ok", "unwrap_err", "map_some", "or_else",
     "unwrap_some"}

LiveInChain(S, k) == {c \in 1 .. Len(S.cells) : Live(S, c) /\ S.cells[c].chain = k}

----------------------------------------------------------------------------
(* C1 *)

\* C1 as stated: no cell's payload is extracted twice, and a cell that is no longer
\* live and whose payload was never extracted has had a Guard failure signalled for it.
C1_ExactlyOnce ==
    \A c \in Ids :
        /\ cells[c].extracted <= 1
        /\ (~Live(Cur, c) /\ cells[c].extracted = 0) => GuardFailures(failures, c) # {}

\* C1 amended: no cell's payload is extracted twice; a cell that reached end of life
\* with no extraction has had a Guard failure signalled for it, unless the Guard is
\* compiled out (drop_unchecked without debug assertions) or, in a test build, another
\* failure was already unwinding the thread when the cell was dropped.
C1_ExactlyOnceWhenGuarded ==
    \A c \in Ids :
        /\ cells[c].extracted <= 1
        /\ (~Live(Cur, c) /\ cells[c].extracted = 0) =>
              \/ GuardFailures(failures, c) # {}
              \/ ~DropImplemented
              \/ /\ cfg.test
                 /\ status # "running"
                 /\ \E i \in 1 .. Len(failures) : failures[i].cell # c

\* One cell destructured once, another dropped unused with its Guard failure signalled.
C1_Witness ==
    \E c, d \in Ids :
        /\ cells[c].extracted = 1 /\ cells[c].disarmed
        /\ cells[d].ended /\ cells[d].extracted = 0
        /\ GuardFailures(failures, d) # {}

----------------------------------------------------------------------------
(* C2 *)

----------------------------------------------------------------------------
(* C3 *)

\* C3: into() called on a cell right after its construction around v returns v,
\* disarms the guard and raises no failure.
C3_DestructureRoundTrip ==
    [][(last.op \in Constructors /\ last'.op = "into" /\ last'.cell = Len(cells)) =>
          /\ last'.arg = last.arg
          /\ last'.cell \in held'
          /\ cells'[last'.cell].disarmed
          /\ ~cells'[last'.cell].ended
          /\ ~Live(Nxt, last'.cell)
          /\ failures' = failures
          /\ status' = "running"]_vars

\* A value was wrapped, destructured at once, and is in the caller's hands.
C3_Witness ==
    /\ last.op = "into"
    /\ Len(cells) = 1
    /\ held = {1}
    /\ last.arg = {Ok(1)}
    /\ cells[1].disarmed
    /\ failures = <<>>

----------------------------------------------------------------------------
(* C4 *)

\* What map(f) leaves when f returns: the input cell consumed with no failure, one new
\* live cell in the same chain whose payload is f(v).
MapPreserves ==
    (last'.op = "map" /\ last'.f # "panic") =>
        /\ cells'[last'.cell].disarmed
        /\ ~Live(Nxt, last'.cell)
        /\ failures' = failures
        /\ MadeOne
        /\ Live(Nxt, NewId)
        /\ Obj(Nxt, NewId).payload = ApplyMap(last'.f, Obj(Cur, last'.cell).payload)
        /\ cells'[NewId].chain = cells[last'.cell].chain

\* The cell map() has just made goes out of scope.
MappedCellDropped ==
    last.op = "map" /\ last'.op = "drop" /\ last'.cell = Len(cells)

\* C4 as stated: map consumes the input cell without a Guard failure and yields a live
\* cell wrapping f(v); dropping that cell undestructured raises exactly one Guard failure.
C4_MapPreservesDiscipline ==
    [][/\ MapPreserves
       /\ MappedCellDropped =>
             /\ RaisedOne
             /\ NewFailure.kind = "guard"
             /\ NewFailure.cell = last'.cell]_vars

\* C4 amended: as stated, except that dropping the new cell raises exactly one Guard
\* failure only where the Guard is compiled in (debug assertions on, or drop_unchecked
\* off); with the Guard compiled out the drop raises nothing.
C4_MapPreservesDisciplineWhenGuarded ==
    [][/\ MapPreserves
       /\ MappedCellDropped =>
             IF DropImplemented
             THEN /\ RaisedOne
                  /\ NewFailure.kind = "guard"
                  /\ NewFailure.cell = last'.cell
             ELSE failures' = failures]_vars

\* A mapped cell, wrapping f(v), was dropped and the Guard fired once for it.
C4_Witness ==
    /\ last.op = "drop"
    /\ last.cell = 2
    /\ cells[1].disarmed /\ cells[1].extracted = 1
    /\ cells[2].chain = cells[1].chain
    /\ cells[2].ended
    /\ Len(failures) = 1
    /\ failures[1].kind = "guard" /\ failures[1].cell = 2

----------------------------------------------------------------------------
(* C5 *)

\* C5: a combinator that returns normally has disarmed the cell it consumed, extracted
\* its payload once, and made exactly one new armed cell in the same chain; into and
\* destroy make no cell; no chain ever has more than one live cell.
C5_OneCellPerChain ==
    [][/\ (last'.op \in Combinators /\ status' = "running") =>
             /\ cells'[last'.cell].disarmed
             /\ ~cells'[last'.cell].ended
             /\ cells[last'.cell].extracted = 0
             /\ cells'[last'.cell].extracted = 1
             /\ ~Live(Nxt, last'.cell)
             /\ MadeOne
             /\ Live(Nxt, NewId)
             /\ ~cells'[NewId].disarmed
             /\ cells'[NewId].chain = cells[last'.cell].chain
       /\ last'.op \in {"into", "destroy"} => Len(cells') = Len(cells)
       /\ \A k \in Chains : Cardinality(LiveInChain(Nxt, k)) <= 1]_vars

\* A combinator returned: its input is consumed and its output is the chain's live cell.
C5_Witness ==
    /\ last.op \in Combinators
    /\ status = "running"
    /\ Len(cells) = 2
    /\ cells[1].disarmed /\ ~Live(Cur, 1)
    /\ LiveInChain(Cur, cells[1].chain) = {2}

----------------------------------------------------------------------------
(* C6 *)

\* The payload of the cell the step consumed, and of the one cell it made.
InPayload == Obj(Cur, last'.cell).payload
OutPayload == Obj(Nxt, NewId).payload

\* C6: map_ok(f) on Ok(x) wraps f(x), on Err(e) wraps Err(e) without invoking f;
\* map_err(f) on Err(e) wraps f(e), on Ok(x) wraps Ok(x) without invoking f.
C6_ResultBranchRouting ==
    [][/\ (last'.op = "map_ok" /\ InPayload.kind = "Ok" /\ last'.f # "panic") =>
             MadeOne /\ OutPayload = Apply(last'.f, InPayload.val) /\ last'.called = 1
       /\ (last'.op = "map_ok" /\ InPayload.kind = "Err") =>
             MadeOne /\ OutPayload = InPayload /\ last'.called = 0
       /\ (last'.op = "map_err" /\ InPayload.kind = "Err" /\ last'.f # "panic") =>
             MadeOne /\ OutPayload = Apply(last'.f, InPayload.val) /\ last'.called = 1
       /\ (last'.op = "map_err" /\ InPayload.kind = "Ok") =>
             MadeOne /\ OutPayload = InPayload /\ last'.called = 0]_vars

\* map_ok passed an Err through untouched: the closure was not invoked.
C6_Witness ==
    /\ last.op = "map_ok" /\ last.called = 0
    /\ Len(cells) = 2
    /\ Live(Cur, 2) /\ Obj(Cur, 2).payload = Err(1)
    /\ status = "running"

----------------------------------------------------------------------------
(* C7 *)

Unwraps == {"unwrap_ok", "unwrap_err", "unwrap_some"}

\* The branch an unwrap expects.
Expected(op) ==
    CASE op = "unwrap_ok" -> "Ok"
      [] op = "unwrap_err" -> "Err"
      [] op = "unwrap_some" -> "Some"

\* C7: an unwrap on the wrong branch raises exactly one failure, which is not a Guard
\* failure, makes no cell and leaves no live cell in the chain; on the expected branch
\* it raises nothing and makes one live cell wrapping the branch's value.
C7_UnwrapMismatchIsFatal ==
    [][last'.op \in Unwraps =>
          IF InPayload.kind = Expected(last'.op)
          THEN /\ failures' = failures
               /\ status' = "running"
               /\ MadeOne
               /\ Live(Nxt, NewId)
               /\ OutPayload = Plain(InPayload.val)
          ELSE /\ RaisedOne
               /\ NewFailure.kind = "unwrap"
               /\ NewFailure.how = "panic"
               /\ status' = "unwinding"
               /\ Len(cells') = Len(cells)
               /\ LiveInChain(Nxt, cells[last'.cell].chain) = {}]_vars

\* unwrap_ok met an Err: one failure, not the Guard's, and the chain has no live cell.
C7_Witness ==
    /\ last.op = "unwrap_ok"
    /\ status = "unwinding"
    /\ Len(failures) = 1 /\ failures[1].kind = "unwrap"
    /\ LiveInChain(Cur, cells[last.cell].chain) = {}
    /\ cells[last.cell].disarmed

----------------------------------------------------------------------------
(* C8 *)

\* C8 as stated: with the Guard compiled in, a live cell that reaches end of life while
\* a failure is unwinding the thread raises no second failure and does not end the
\* process.
C8_NoDoubleFailure ==
    [][(last'.op = "unwind_drop" /\ DropImplemented) =>
          failures' = failures /\ status' = "unwinding"]_vars

\* C8 amended: that holds in test builds, where NoDrop::drop asks
\* std::thread::panicking(); in a non-test build with the Guard compiled in the Guard
\* aborts the process even while a failure is unwinding the thread.
C8_NoDoubleFailureInTestBuilds ==
    [][(last'.op = "unwind_drop" /\ DropImplemented) =>
          IF cfg.test
          THEN failures' = failures /\ status' = "unwinding"
          ELSE /\ RaisedOne
               /\ NewFailure.kind = "guard" /\ NewFailure.how = "abort"
               /\ NewFailure.cell = last'.cell
               /\ status' = "aborted"]_vars

\* In a test build the Guard fired for one cell, and a second live cell was dropped
\* during the unwinding without a second failure.
C8_Witness ==
    /\ last.op = "unwind_drop"
    /\ cfg.test /\ DropImplemented
    /\ status = "unwinding"
    /\ Len(failures) = 1
    /\ failures[1].kind = "guard" /\ failures[1].cell # last.cell
    /\ cells[last.cell].ended /\ cells[last.cell].extracted = 0

----------------------------------------------------------------------------
(* C9 *)

\* The Guard fires for the cell that goes out of scope: a panic in test builds, an
\* abort otherwise.
GuardFires ==
    /\ RaisedOne
    /\ NewFailure.kind = "guard"
    /\ NewFailure.cell = last'.cell
    /\ IF cfg.test
       THEN NewFailure.how = "panic" /\ status' = "unwinding"
       ELSE NewFailure.how = "abort" /\ status' = "aborted"

\* C9 as stated: with drop_unchecked selected the drop of a live cell signals nothing in
\* any build; without it the drop (in normal execution) panics in test builds and
\* aborts otherwise.
C9_SeverityConfiguration ==
    [][/\ (last'.op \in {"drop", "unwind_drop"} /\ cfg.drop_unchecked) =>
             failures' = failures /\ status' = status
       /\ (last'.op = "drop" /\ ~cfg.drop_unchecked) => GuardFires]_vars

\* C9 amended: drop_unchecked disables the Guard only in builds without debug
\* assertions; there the drop of a live cell signals nothing. In every other build
\* (debug assertions on, or drop_unchecked off) the drop of a live cell in normal
\* execution panics in test builds and aborts otherwise.
C9_SeverityConfigurationDebugKeepsGuard ==
    [][/\ (last'.op \in {"drop", "unwind_drop"}
             /\ cfg.drop_unchecked /\ ~cfg.debug_assertions) =>
             failures' = failures /\ status' = status
       /\ (last'.op = "drop" /\ (cfg.debug_assertions \/ ~cfg.drop_unchecked)) =>
             GuardFires]_vars

\* drop_unchecked is selected, debug assertions are on, and the Guard aborted the
\* process for a dropped cell.
C9_Witness ==
    /\ last.op = "drop"
    /\ cfg.drop_unchecked /\ cfg.debug_assertions /\ ~cfg.test
    /\ status = "aborted"
    /\ failures = <<Failure("guard", "abort", GuardMessage, last.cell)>>

----------------------------------------------------------------------------
(* C10 *)

\* What a run shows of a state: the failures, whether the thread runs, unwinds or the
\* process is gone, the cleanups run, the live cells and the payloads in the caller's
\* hands.
Observable(S) ==
    [failures |-> S.failures,
     status |-> S.status,
     cleaned |-> [c \in 1 .. Len(S.cells) |-> S.cells[c].cleaned],
     live |-> {c \in 1 .. Len(S.cells) : Live(S, c)},
     held |-> S.held]

\* into() on cell c, then the returned payload dropped.
IntoThenDrop(S, c, dp) == drop_value(Hold(into(S, c), c), c, dp)

\* C10: destroy on a live cell disarms its guard, runs the payload's cleanup exactly
\* once, makes no cell, raises no failure of its own (none at all when the cleanup
\* raises none), and leaves what into() followed by dropping the payload leaves.
C10_DestroyIsIntoThenDrop ==
    [][last'.op = "destroy" =>
          /\ cells'[last'.cell].cleaned = 1
          /\ Len(cells') = Len(cells)
          /\ ~Live(Nxt, last'.cell)
          /\ GuardFailures(failures', last'.cell) = {}
          /\ last'.f = "-" => (failures' = failures /\ cells'[last'.cell].disarmed)
          /\ Observable(Nxt) =
                Observable(IntoThenDrop(Cur, last'.cell, last'.f = "drop_panics"))]_vars

----------------------------------------------------------------------------
(* C11 *)

\* Cell c was made by a constructor, not by a combinator: its tag is a UniqueType.
ByConstructor(S, c) == Obj(S, c).tag[1] = "UniqueType"

GivenType(l) == TypeName(CHOOSE p \in l.arg : TRUE)

----------------------------------------------------------------------------
(* C12 *)

\* C12: a cell with a later-position tag (a tag that is a cell type, not a UniqueType)
\* comes into existence only in a step of a combinator that consumes one live cell,
\* and its tag is the type of that cell; a combinator that makes a cell makes one
\* with such a tag.
C12_ChainContinuity ==
    [][MadeOne =>
          /\ ~ByConstructor(Nxt, NewId) <=> last'.op \in Combinators
          /\ ~ByConstructor(Nxt, NewId) =>
                /\ Live(Cur, last'.cell)
                /\ ~Live(Nxt, last'.cell)
                /\ cells'[last'.cell].extracted = 1
                /\ Obj(Nxt, NewId).tag = SelfType(Cur, last'.cell)]_vars

----------------------------------------------------------------------------
(* C13 *)

\* The cells whose drop glue ran in the step: they reached end of life still armed.
EndedArmed == {c \in Ids : cells'[c].ended /\ ~cells[c].ended}

\* The step signalled a Guard failure for cell c.
GuardFiredFor(c) == GuardFailures(failures', c) # GuardFailures(failures, c)

\* C13 as stated: whenever a cell reaches end of life while still live, the Guard
\* fires for it, and the payload's own cleanup has not run by then.
C13_NoSilentLeak ==
    [][\A c \in EndedArmed :
          /\ GuardFiredFor(c)
          /\ cells'[c].cleaned = 0]_vars

\* C13 amended: when a live cell goes out of scope the Guard fires for it exactly
\* when it is compiled in and, in a test build, no failure is propagating; the drop
\* runs no cleanup of the payload, before the Guard or after it. Only destroy, when
\* the payload's cleanup panics, lets a cell reach end of life still armed after the
\* cleanup ran: the payload's failure then precedes whatever the Guard signals.
C13_GuardBeforeCleanupUnlessDestroy ==
    [][\A c \in EndedArmed :
          /\ GuardFiredFor(c) <=>
                (DropImplemented /\ (cfg.test => (Running /\ last'.op = "drop")))
          /\ last'.cell = c
          /\ last'.op \in {"drop", "unwind_drop"} =>
                (cells'[c].cleaned = 0 /\ Len(failures') <= Len(failures) + 1)
          /\ last'.op \notin {"drop", "unwind_drop"} =>
                /\ last'.op = "destroy" /\ last'.f = "drop_panics"
                /\ cells'[c].cleaned = 1
                /\ failures'[Len(failures) + 1] = Failure("payload", "panic", <<>>, c)
                /\ \A i \in GuardFailures(failures', c) : i > Len(failures) + 1]_vars

\* A live cell went out of scope in a build without cfg(test): the Guard aborted the
\* process, and the payload's cleanup never ran.
C13_Witness ==
    /\ last.op = "drop"
    /\ ~cfg.test
    /\ status = "aborted"
    /\ cells[last.cell].ended
    /\ cells[last.cell].cleaned = 0
    /\ GuardFailures(failures, last.cell) # {}

----------------------------------------------------------------------------
(* C14 *)

\* C14: map_some(f) on Some(x) wraps f(x), on None wraps None without invoking f;
\* or_else(f) on Some(x) wraps Some(x) without invoking f, on None wraps f().
C14_OptionBranchRouting ==
    [][/\ (last'.op = "map_some" /\ InPayload.kind = "Some" /\ last'.f # "panic") =>
             MadeOne /\ OutPayload = Apply(last'.f, InPayload.val) /\ last'.called = 1
       /\ (last'.op = "map_some" /\ InPayload.kind = "None") =>
             MadeOne /\ OutPayload = None /\ last'.called = 0
       /\ (last'.op = "or_else" /\ InPayload.kind = "Some") =>
             MadeOne /\ OutPayload = InPayload /\ last'.called = 0
       /\ (last'.op = "or_else" /\ InPayload.kind = "None" /\ last'.f # "panic") =>
             MadeOne /\ OutPayload = Apply(last'.f, 0) /\ last'.called = 1]_vars

\* or_else supplied the fallback for a None: the closure was invoked once.
C14_Witness ==
    /\ last.op = "or_else" /\ last.f = "some_default" /\ last.called = 1
    /\ Len(cells) = 2
    /\ Live(Cur, 2) /\ Obj(Cur, 2).payload = Some(0)
    /\ ~Live(Cur, 1) /\ cells[1].extracted = 1
    /\ status = "running"

----------------------------------------------------------------------------
(* C16 *)

\* The combinators that take a closure of the caller.
WithClosure == {"map", "map_ok", "map_err", "map_some", "or_else"}

\* C16: when the closure handed to map, map_ok, map_err, map_some or or_else is
\* invoked and panics, the step raises exactly one failure, the closure's; the cell
\* consumed was destructured before, its Guard does not fire, and no cell is made.
C16_ClosureFailureIsNotGuardViolation ==
    [][(last'.op \in WithClosure /\ last'.f = "panic" /\ last'.called = 1) =>
          /\ RaisedOne
          /\ NewFailure = Failure("user", "panic", <<>>, last'.cell)
          /\ GuardFailures(failures', last'.cell) = {}
          /\ cells'[last'.cell].disarmed
          /\ ~cells'[last'.cell].ended
          /\ cells'[last'.cell].extracted = 1
          /\ Len(cells') = Len(cells)
          /\ status' = "unwinding"]_vars

\* The closure of map_ok panicked on an Ok payload: one failure, no Guard failure, the
\* thread unwinds and the cell consumed is disarmed.
C16_Witness ==
    /\ last.op = "map_ok" /\ last.f = "panic" /\ last.called = 1
    /\ status = "unwinding"
    /\ Len(failures) = 1 /\ failures[1].kind = "user"
    /\ cells[last.cell].disarmed
    /\ Len(cells) = 1

====
